---- MODULE Spec2Model ----
(***************************************************************************)
(* Model of src/await.py: a script that walks a directory tree, tokenizes  *)
(* every file whose name ends with '.py', prints one line per NAME token   *)
(* spelled 'await' or 'async', one ERROR line per file whose tokenization  *)
(* raised SyntaxError or UnicodeDecodeError, and a three-line summary.     *)
(*                                                                         *)
(* The file system and the tokenizer are the environment: what a directory *)
(* listing returns, whether a file can be opened, and which tokens the     *)
(* tokenizer yields before it finishes or raises are chosen with \E at the *)
(* step that asks for them.  Standard output is the environment too: a     *)
(* print() writes its pieces one by one and can raise at any of them.      *)
(***************************************************************************)
EXTENDS Integers, Sequences, FiniteSets

\* ------------------------------------------------------------------ bounds
\* Directories seen by one walk, the root included: the root and two
\* directories below it, side by side or one in the other.
MaxDirs == 3
\* Characters of source text read, over the whole walk ("await async\n"
\* has twelve).
MaxChars == 12

\* ------------------------------------------------------- the environment
\* File names, as sequences of characters.
NameAPy == <<"a", ".", "p", "y">>
NameDTxt == <<"d", ".", "t", "x", "t">>
NameEUpper == <<"e", ".", "P", "Y">>
\* A name with a byte that is not UTF-8; os.walk hands it on as a lone
\* surrogate, which a strict standard output cannot encode (a directory
\* can have a name that cannot be encoded too, see MayNotEncode).
NameRawPy == <<"<ff>", ".", "p", "y">>
Names == {NameAPy, NameRawPy, NameDTxt, NameEUpper}

\* The words of a source line as the tokenizer classifies them: a type and
\* the exact text.  In Python 3.5 and 3.6 the tokenizer gives 'await' inside
\* a coroutine the type AWAIT instead of NAME; a string literal keeps its
\* quotes in the text.
Lexemes ==
    { [type |-> "NAME", string |-> "await"],
      [type |-> "NAME", string |-> "async"],
      [type |-> "NAME", string |-> "awaits"],
      [type |-> "STRING", string |-> "'await'"],
      [type |-> "AWAIT", string |-> "await"] }

\* How reading a file ends: the tokenizer reaches the end of the file, or
\* it raises.  SyntaxError: also a coding cookie that names no codec.
\* TokenError: "EOF in multi-line statement".  LookupError: a coding cookie
\* that names a codec which is not a text encoding.  UnicodeError: a coding
\* cookie that names a codec whose decoder raises it (undefined, punycode).
\* OSError: f.readline cannot read the opened file.
Endings ==
    {"ok", "SyntaxError", "IndentationError", "UnicodeDecodeError",
     "TokenError", "LookupError", "UnicodeError", "OSError"}

SeqsUpTo(S, n) == UNION { [1..k -> S] : k \in 0..n }

\* The words s cut into lines after the positions in B, from word i on.
RECURSIVE Split(_, _, _)
Split(s, B, i) ==
    IF i > Len(s) THEN <<>>
    ELSE LET e == CHOOSE b \in (B \cup {Len(s)}) :
                    b >= i /\ \A c \in (B \cup {Len(s)}) : c >= i => b <= c
         IN  <<SubSeq(s, i, e)>> \o Split(s, B, e + 1)

\* The characters of a text: its words, a space between two words of a
\* line, a newline after every line.
RECURSIVE LineChars(_)
LineChars(line) ==
    IF line = <<>> THEN 0 ELSE Len(Head(line).string) + 1 + LineChars(Tail(line))
RECURSIVE Chars(_)
Chars(lines) == IF lines = <<>> THEN 0 ELSE LineChars(Head(lines)) + Chars(Tail(lines))

\* The characters the shortest word takes, with the space or newline after.
MinWordChars ==
    CHOOSE m \in { Len(x.string) + 1 : x \in Lexemes } :
        \A x \in Lexemes : m <= Len(x.string) + 1

\* Directory entries that are files, over the whole walk: as many as the
\* text read has room for words, a file for every word.
MaxFiles == MaxChars \div MinWordChars

\* The texts of at most n characters: lines of one or more words, the words
\* of a line one space apart, every line ended by a newline.
Layouts(n) ==
    LET w == n \div MinWordChars IN
    { l \in { Split(s, B, 1) : s \in SeqsUpTo(Lexemes, w), B \in SUBSET (1..(w - 1)) } :
        Chars(l) <= n }

\* The content of a file as the tokenizer sees it: its lines of words, and
\* how the token stream ends.
Contents(n) == [lines : Layouts(n), end : Endings]

\* The words of a text, in source order.
RECURSIVE Words(_)
Words(lines) == IF lines = <<>> THEN <<>> ELSE Head(lines) \o Words(Tail(lines))

Distinct(s) == \A i, j \in 1..Len(s) : i # j => s[i] # s[j]

\* The non-directory entries of one directory: distinct names, in the order
\* the operating system lists them.
Listings(n) == { s \in SeqsUpTo(Names, n) : Distinct(s) }

Min(a, b) == IF a < b THEN a ELSE b

\* ------------------------------------------------------------- the state
VARIABLES
    pc,        \* position in the script
    stack,     \* os.walk: directories still to be listed, next one first
    root,      \* the directory whose files are being processed
    files,     \* the names of `files` the inner loop has not reached yet
    filename,  \* the file last handed to open()
    tokens,    \* the list `tokens` (kept from one file to the next)
    ti,        \* index of the next element of `tokens` in the token loop
    c_error, c_async, c_await,
    out,       \* the lines printed on standard output
    exc,       \* the exception that ended the run, "none" otherwise
    \* history of the run, read by the properties only
    opened,    \* the files handed to open(), in order
    cur,       \* how the last file fared and what its tokenizer had yielded
    base,      \* the counters when the last file was tokenized
    nPy,       \* listed file entries whose name ends with '.py'
    nOk,       \* files tokenized without an exception
    nFailed,   \* files whose tokenization raised
    nFiles,    \* file entries listed so far
    nSkipped,  \* listed entries passed over for their name
    nDirs,     \* directories discovered so far
    nChars,    \* characters of source text read so far
    unread,    \* directories that could not be listed
    stdout     \* whether standard output is known to take lone surrogates

vars == <<pc, stack, root, files, filename, tokens, ti, c_error, c_async, c_await,
          out, exc, opened, cur, base, nPy, nOk, nFailed, nFiles, nSkipped, nDirs, nChars, unread, stdout>>

walkHist == <<nPy, nFiles, nSkipped, nDirs, unread>>
fileHist == <<opened, cur, base, nOk, nFailed, nChars>>

NoFile == <<>>
RootDir == <<>>
Unbound == "unbound"

\* The write() calls one print() makes for a line of kind k: its arguments
\* with ' ' between them, then the newline.
Pieces(k) ==
    CASE k = "blank" -> 1
      [] k \in {"usage", "await", "async"} -> 2
      [] k = "ERROR" -> 6
      [] OTHER -> 4

\* The piece that holds the path of a directory or file.
PathPiece(k) == IF k \in {"await", "async"} THEN 1 ELSE 3

\* One printed line: what it is, the file it is about, a position or a
\* count, the diagnostic of an ERROR line, and how many of its pieces are
\* written.
Line(k, f, p, x) == [k |-> k, f |-> f, p |-> p, x |-> x, w |-> Pieces(k)]

\* The line l of which print() wrote only the first n pieces.
Cut(l, n) == [l EXCEPT !.w = n]

\* print(): the line goes after everything printed before.
EmitFirst(o, l) == <<l>> \o o
Emit(o, l) == Append(o, l)

\* ------------------------------------------------------ pure operations
Suffix == <<".", "p", "y">>

EndsWithAnyCase(name, suffix) ==
    LET Lower(c) == IF c = "P" THEN "p" ELSE IF c = "Y" THEN "y" ELSE c IN
    /\ Len(name) >= Len(suffix)
    /\ \A i \in 1..Len(suffix) : Lower(name[Len(name) - Len(suffix) + i]) = suffix[i]

\* str.endswith
EndsWith(name, suffix) ==
    /\ Len(name) >= Len(suffix)
    /\ SubSeq(name, Len(name) - Len(suffix) + 1, Len(name)) = suffix

\* os.path.join(root, name)
Join(r, name) == <<r, name>>

\* The classes an exception is an instance of.
Bases(e) ==
    CASE e = "SystemExit" -> {"SystemExit", "BaseException"}
      [] e = "IndentationError" ->
            {"IndentationError", "SyntaxError", "Exception", "BaseException"}
      [] e = "UnicodeDecodeError" ->
            {"UnicodeDecodeError", "UnicodeError", "ValueError", "Exception",
             "BaseException"}
      [] e = "UnicodeEncodeError" ->
            {"UnicodeEncodeError", "UnicodeError", "ValueError", "Exception",
             "BaseException"}
      [] e = "UnicodeError" ->
            {"UnicodeError", "ValueError", "Exception", "BaseException"}
      [] e = "FileNotFoundError" ->
            {"FileNotFoundError", "OSError", "Exception", "BaseException"}
      [] e = "RecursionError" ->
            {"RecursionError", "RuntimeError", "Exception", "BaseException"}
      [] OTHER -> {e, "Exception", "BaseException"}

\* Whether the name of the file f = <<directory, name>> can be encoded by
\* a standard output with a strict error handler.
Encodable(f) == \A i \in 1..Len(f[2]) : f[2][i] # "<ff>"

\* The names of the directories below the root are the environment's, and
\* so is whether standard output can encode them, whatever it does with
\* the names of files (a name with a character outside its encoding fails
\* where a lone surrogate is written back as its byte): the directory of f
\* may have a name it cannot encode, unless it is the root, which line 13
\* has printed, or a line for a file of the same directory has been
\* printed already.
MayNotEncode(f) ==
    /\ f[1] # RootDir
    /\ \A i \in 1..Len(out) : out[i].f = NoFile \/ out[i].f[1] # f[1]

\* Whether print() of the path of f can raise UnicodeEncodeError: for the
\* name of the file, unless standard output is known to take lone
\* surrogates; for the name of its directory.
BadPath(f) == (~Encodable(f) /\ stdout # "lenient") \/ MayNotEncode(f)

\* The ways print() of the line l can raise, with the number of its pieces
\* already written: OSError when standard output stops taking text, at any
\* piece; UnicodeEncodeError at the piece that holds a path (bad) which
\* standard output cannot encode.
PrintFailures(l, bad) ==
    { [exc |-> "OSError", w |-> n] : n \in 0..(Pieces(l.k) - 1) } \cup
    (IF bad
     THEN {[exc |-> "UnicodeEncodeError", w |-> PathPiece(l.k) - 1]}
     ELSE {})

\* Standard output after print() of l raised with n pieces written.
Written(o, l, n) == IF n = 0 THEN o ELSE Emit(o, Cut(l, n))

\* What a print() that names the file f and returns tells about standard
\* output: after a name with a lone surrogate, that it takes lone
\* surrogates; nothing about other names.
AfterPrint(f) == IF Encodable(f) THEN stdout ELSE "lenient"

\* One step of a path below the root: the i-th sub-directory of its
\* parent.  levels: how many levels it lies below the directory the path
\* names before it; more than one when the directories between hold
\* nothing but the next one.
Dir(i) == [i |-> i, levels |-> 1]
Below(k) == [i |-> 1, levels |-> k]

\* The nesting of a directory under the root.
RECURSIVE Depth(_)
Depth(d) == IF d = <<>> THEN 0 ELSE Head(d).levels + Depth(Tail(d))

\* sys.getrecursionlimit() of the interpreter that runs the script.
RecursionLimit == 1000

\* os.walk calls itself for every level, from the frame of the script and
\* with one more frame for os.path.join: the directory at this nesting is
\* the first it cannot descend into.
TooDeep(d) == Depth(d) + 2 >= RecursionLimit

\* Lengths of the chains of directories, each holding nothing but the
\* next, that bring the walk to the last nesting it can list and to the
\* first it cannot.
ChainLens == {RecursionLimit - 4, RecursionLimit - 3}

\* The class of the except clause that an exception matches: the failure
\* kind its diagnostic stands for on the ERROR line.
CaughtAs(e) == CHOOSE c \in {"SyntaxError", "UnicodeDecodeError"} : c \in Bases(e)

\* except (SyntaxError, UnicodeDecodeError)
Caught(e) == Bases(e) \cap {"SyntaxError", "UnicodeDecodeError"} # {}

TokenInfo(type, string, row, col) ==
    [type |-> type, string |-> string, start |-> <<row, col>>]

\* The column at which word k of a line starts; for k one past the last
\* word, one past the column of the newline.
RECURSIVE Col(_, _)
Col(line, k) == IF k = 1 THEN 0 ELSE Col(line, k - 1) + Len(line[k - 1].string) + 1

\* The tokens of line number row: its words, then NEWLINE.
LineTokens(line, row) ==
    [k \in 1..Len(line) |->
        TokenInfo(line[k].type, line[k].string, row, Col(line, k))]
    \o <<TokenInfo("NEWLINE", "\n", row, Col(line, Len(line) + 1) - 1)>>

RECURSIVE TextTokens(_, _)
TextTokens(lines, row) ==
    IF lines = <<>> THEN <<>>
    ELSE LineTokens(Head(lines), row) \o TextTokens(Tail(lines), row + 1)

\* list(tokenize.tokenize(f.readline)): ENCODING at (0, 0), the tokens of
\* every line with their (row, column) start, rows counted from 1 and
\* columns from 0, and ENDMARKER on the row after the last line; or the
\* exception: what was yielded before it is dropped with the list.
Tokenize(content) ==
    IF content.end = "ok"
    THEN [exc |-> "none",
          tokens |-> <<TokenInfo("ENCODING", "utf-8", 0, 0)>>
                     \o TextTokens(content.lines, 1)
                     \o <<TokenInfo("ENDMARKER", "", Len(content.lines) + 1, 0)>>]
    ELSE [exc |-> content.end, tokens |-> <<>>]

IsMatchAnyType(tok) == tok.string \in {"await", "async"}

\* tok.type == token.NAME and tok.string in ('await', 'async')
IsMatch(tok) == tok.type = "NAME" /\ tok.string \in {"await", "async"}

\* if tok.string == 'await': c_await += 1
AwaitInc(tok) == IF tok.string = "await" THEN 1 ELSE 0

\* if tok.string == 'async': c_async += 1
AsyncInc(tok) == IF tok.string = "async" THEN 1 ELSE 0

NoErrInc == 1 - 1
\* c_error += 1
ErrInc == 1

FallThrough == "toks"
\* `continue` in the except clause: on to the next name
AfterExcept == "files"

SummarySwapped(e, aw, as) ==
    << Line("blank", NoFile, 0, "-"),
       Line("# of errors", NoFile, e, "-"),
       Line("# of await", NoFile, as, "-"),
       Line("# of async", NoFile, aw, "-") >>
\* the four print() calls that end the script
Summary(e, aw, as) ==
    << Line("blank", NoFile, 0, "-"),
       Line("# of errors", NoFile, e, "-"),
       Line("# of await", NoFile, aw, "-"),
       Line("# of async", NoFile, as, "-") >>

\* Independent spelling of "the name ends with .py", for the history
\* counters and the properties.
HasPySuffix(n) ==
    /\ Len(n) >= 3
    /\ n[Len(n) - 2] = "." /\ n[Len(n) - 1] = "p" /\ n[Len(n)] = "y"

NumPy(l) == Cardinality({ i \in 1..Len(l) : HasPySuffix(l[i]) })
NumMatching(lex) ==
    Cardinality({ i \in 1..Len(lex) :
        lex[i].type = "NAME" /\ lex[i].string \in {"await", "async"} })

\* ----------------------------------------------------------------- Init
Init ==
    /\ pc = "init"
    /\ stack = <<>>
    /\ root = RootDir
    /\ files = <<>>
    /\ filename = NoFile
    /\ tokens = <<>>
    /\ ti = 1
    /\ c_error = Unbound /\ c_async = Unbound /\ c_await = Unbound
    /\ out = <<>>
    /\ exc = "none"
    /\ opened = <<>>
    /\ cur = [status |-> "none", yielded |-> 0]
    /\ base = [await |-> 0, async |-> 0, error |-> 0]
    /\ stdout = "unknown"
    /\ nPy = 0 /\ nOk = 0 /\ nFailed = 0 /\ nFiles = 0 /\ nSkipped = 0 /\ nDirs = 0 /\ nChars = 0 /\ unread = 0

\* -------------------------------------------------------------- actions
\* Lines 8-10: no directory argument.
Usage ==
    /\ pc = "init"
    /\ out' = Emit(out, Line("usage", NoFile, 0, "-"))
    /\ exc' = "SystemExit"
    /\ pc' = "exit"
    /\ UNCHANGED <<stack, root, files, filename, tokens, ti, c_error, c_async, c_await>>
    /\ UNCHANGED <<walkHist, fileHist, stdout>>

\* Line 9: no directory argument, and print() raises.
UsageFails ==
    /\ pc = "init"
    /\ \E o \in PrintFailures(Line("usage", NoFile, 0, "-"), FALSE) :
        /\ out' = Written(out, Line("usage", NoFile, 0, "-"), o.w)
        /\ exc' = o.exc
    /\ pc' = "aborted"
    /\ UNCHANGED <<stack, root, files, filename, tokens, ti, c_error, c_async, c_await>>
    /\ UNCHANGED <<walkHist, fileHist, stdout>>

\* Lines 12-18: echo the directory, zero the counters, start the walk.
Start ==
    /\ pc = "init"
    /\ out' = Emit(Emit(out, Line("Directory", NoFile, 0, "-")), Line("blank", NoFile, 0, "-"))
    /\ c_error' = 0 /\ c_async' = 0 /\ c_await' = 0
    /\ stack' = <<RootDir>>
    /\ nDirs' = 1
    /\ pc' = "walk"
    /\ UNCHANGED <<root, files, filename, tokens, ti, exc, nPy, nFiles, nSkipped, unread>>
    /\ UNCHANGED <<fileHist, stdout>>

\* How lines 12-14 can raise, and what is on standard output then:
\* os.path.abspath of a relative argument when the working directory is
\* gone (nothing printed yet); print() at line 13, of a directory that may
\* have a name standard output cannot encode; print() at line 14, after
\* the line of line 13.
StartFailures ==
    {[exc |-> "FileNotFoundError", out |-> <<>>]}
    \cup { [exc |-> o.exc, out |-> Written(<<>>, Line("Directory", NoFile, 0, "-"), o.w)] :
             o \in PrintFailures(Line("Directory", NoFile, 0, "-"), TRUE) }
    \cup { [exc |-> o.exc,
            out |-> Written(<<Line("Directory", NoFile, 0, "-")>>,
                            Line("blank", NoFile, 0, "-"), o.w)] :
             o \in PrintFailures(Line("blank", NoFile, 0, "-"), FALSE) }

\* Lines 12-14: a statement before the counters are bound raises; nothing
\* catches it.
StartFails ==
    /\ pc = "init"
    /\ \E o \in StartFailures :
        /\ out' = out \o o.out
        /\ exc' = o.exc
    /\ pc' = "aborted"
    /\ UNCHANGED <<stack, root, files, filename, tokens, ti, c_error, c_async, c_await>>
    /\ UNCHANGED <<walkHist, fileHist, stdout>>

\* Line 18, os.walk: the next directory is listed; its sub-directories are
\* walked after its files, before the directories that were already waiting.
\* A directory nested too deep is not listed: os.walk raises RecursionError
\* on its way into it, and nothing catches it.
WalkYield ==
    /\ pc = "walk" /\ stack # <<>>
    /\ IF TooDeep(Head(stack))
       THEN /\ exc' = "RecursionError"
            /\ pc' = "aborted"
            /\ UNCHANGED <<stack, root, files, nFiles, nPy, nDirs>>
       ELSE /\ \E l \in Listings(Min(MaxFiles - nFiles, Cardinality(Names))),
                  n \in 0..(MaxDirs - nDirs) :
                /\ root' = Head(stack)
                /\ files' = l
                /\ stack' = [i \in 1..n |-> Append(root', Dir(i))] \o Tail(stack)
                /\ nFiles' = nFiles + Len(l)
                /\ nPy' = nPy + NumPy(l)
                /\ nDirs' = nDirs + n
            /\ pc' = "files"
            /\ exc' = exc
    /\ UNCHANGED <<filename, tokens, ti, c_error, c_async, c_await, out, nSkipped, unread>>
    /\ UNCHANGED <<fileHist, stdout>>

\* Line 18, os.walk, several iterations in one step: the next directory
\* and the directories on a chain below it hold no file and one directory
\* each, so the body of the loop does nothing for any of them; the walk
\* is left at the directory the last of them holds.
WalkChain ==
    /\ pc = "walk" /\ stack # <<>>
    /\ nDirs + 2 <= MaxDirs
    /\ \E k \in ChainLens :
        LET last == Append(Head(stack), Below(k)) IN
        /\ ~TooDeep(last)
        /\ root' = last
        /\ stack' = <<Append(last, Dir(1))>> \o Tail(stack)
    /\ files' = <<>>
    /\ nDirs' = nDirs + 2
    /\ pc' = "files"
    /\ UNCHANGED <<filename, tokens, ti, c_error, c_async, c_await, out, exc>>
    /\ UNCHANGED <<nPy, nFiles, nSkipped, unread>>
    /\ UNCHANGED <<fileHist, stdout>>

\* Line 18, os.walk(dir) with onerror left at None: the next directory
\* cannot be listed; it is passed over and the walk goes on.
WalkError ==
    /\ pc = "walk" /\ stack # <<>>
    /\ ~TooDeep(Head(stack))
    /\ stack' = Tail(stack)
    /\ unread' = unread + 1
    /\ UNCHANGED <<pc, root, files, filename, tokens, ti, c_error, c_async, c_await, out, exc>>
    /\ UNCHANGED <<nPy, nFiles, nSkipped, nDirs>>
    /\ UNCHANGED <<fileHist, stdout>>

\* Lines 46-49: the walk is exhausted.
PrintSummary ==
    /\ pc = "walk" /\ stack = <<>>
    /\ out' = out \o Summary(c_error, c_await, c_async)
    /\ pc' = "done"
    /\ UNCHANGED <<stack, root, files, filename, tokens, ti, c_error, c_async, c_await, exc>>
    /\ UNCHANGED <<walkHist, fileHist, stdout>>

\* Lines 46-49: the walk is exhausted, and one of the four print() calls
\* raises; the lines before it are written, and of its own line the
\* pieces before the one that failed.
SummaryFails ==
    /\ pc = "walk" /\ stack = <<>>
    /\ \E j \in 1..4 :
        LET s == Summary(c_error, c_await, c_async) IN
        \E o \in PrintFailures(s[j], FALSE) :
            /\ out' = Written(out \o SubSeq(s, 1, j - 1), s[j], o.w)
            /\ exc' = o.exc
    /\ pc' = "aborted"
    /\ UNCHANGED <<stack, root, files, filename, tokens, ti, c_error, c_async, c_await>>
    /\ UNCHANGED <<walkHist, fileHist, stdout>>

\* Line 19: the names of this directory are exhausted.
FilesDone ==
    /\ pc = "files" /\ files = <<>>
    /\ pc' = "walk"
    /\ UNCHANGED <<stack, root, files, filename, tokens, ti, c_error, c_async, c_await, out, exc>>
    /\ UNCHANGED <<walkHist, fileHist, stdout>>

\* Lines 20-21: a name without the suffix.
SkipName ==
    /\ pc = "files" /\ files # <<>>
    /\ ~EndsWith(Head(files), Suffix)
    /\ files' = Tail(files)
    /\ nSkipped' = nSkipped + 1
    /\ UNCHANGED <<pc, stack, root, filename, tokens, ti, c_error, c_async, c_await, out, exc>>
    /\ UNCHANGED <<nPy, nFiles, nDirs, unread>>
    /\ UNCHANGED <<fileHist, stdout>>

\* Lines 23-24: open() raises (no permission, a dangling link); nothing
\* catches it.
OpenFails ==
    /\ pc = "files" /\ files # <<>>
    /\ EndsWith(Head(files), Suffix)
    /\ filename' = Join(root, Head(files))
    /\ files' = Tail(files)
    /\ opened' = Append(opened, filename')
    /\ cur' = [status |-> "openfail", yielded |-> 0]
    /\ exc' = "OSError"
    /\ pc' = "aborted"
    /\ UNCHANGED <<stack, root, tokens, ti, c_error, c_async, c_await, out>>
    /\ UNCHANGED <<base, nOk, nFailed, nChars>>
    /\ UNCHANGED <<walkHist, stdout>>

\* Lines 23-27: the file is tokenized to its end.
TokenizeOk ==
    /\ pc = "files" /\ files # <<>>
    /\ EndsWith(Head(files), Suffix)
    /\ \E content \in Contents(MaxChars - nChars) :
        LET r == Tokenize(content) IN
        /\ r.exc = "none"
        /\ tokens' = r.tokens
        /\ cur' = [status |-> "ok", yielded |-> NumMatching(Words(content.lines))]
        /\ nChars' = nChars + Chars(content.lines)
    /\ filename' = Join(root, Head(files))
    /\ files' = Tail(files)
    /\ opened' = Append(opened, filename')
    /\ base' = [await |-> c_await, async |-> c_async, error |-> c_error]
    /\ nOk' = nOk + 1
    /\ ti' = 1
    /\ pc' = "toks"
    /\ UNCHANGED <<stack, root, c_error, c_async, c_await, out, exc, nFailed>>
    /\ UNCHANGED <<walkHist, stdout>>

\* Lines 23-29: the tokenizer raises an exception the except clause names,
\* and the ERROR line is printed.
TokenizeCaught ==
    /\ pc = "files" /\ files # <<>>
    /\ EndsWith(Head(files), Suffix)
    /\ filename' = Join(root, Head(files))
    /\ \E content \in Contents(MaxChars - nChars) :
        LET r == Tokenize(content) IN
        /\ r.exc # "none" /\ Caught(r.exc)
        /\ out' = Emit(out, Line("ERROR", filename', 0, CaughtAs(r.exc)))
        /\ cur' = [status |-> "caught", yielded |-> NumMatching(Words(content.lines))]
        /\ nChars' = nChars + Chars(content.lines)
    /\ stdout' = AfterPrint(filename')
    /\ files' = Tail(files)
    /\ opened' = Append(opened, filename')
    /\ base' = [await |-> c_await, async |-> c_async, error |-> c_error]
    /\ nFailed' = nFailed + 1
    /\ pc' = "except"
    /\ UNCHANGED <<stack, root, tokens, ti, c_error, c_async, c_await, exc, nOk>>
    /\ UNCHANGED walkHist

\* Lines 30-31: the error is counted, and on to the next name.
CountError ==
    /\ pc = "except"
    /\ c_error' = c_error + ErrInc
    /\ ti' = 1
    /\ pc' = AfterExcept
    /\ UNCHANGED <<stack, root, files, filename, tokens, c_async, c_await, out, exc>>
    /\ UNCHANGED <<walkHist, fileHist, stdout>>

\* Lines 23-29: the tokenizer raises an exception the except clause names,
\* and print() at line 29 raises in the handler: line 30 is not reached.
\* The pieces before the one that failed are written.
ErrorPrintFails ==
    /\ pc = "files" /\ files # <<>>
    /\ EndsWith(Head(files), Suffix)
    /\ filename' = Join(root, Head(files))
    /\ \E content \in Contents(MaxChars - nChars) :
        LET r == Tokenize(content)
            l == Line("ERROR", filename', 0, CaughtAs(r.exc))
        IN
        /\ r.exc # "none" /\ Caught(r.exc)
        /\ \E o \in PrintFailures(l, BadPath(filename')) :
            /\ out' = Written(out, l, o.w)
            /\ exc' = o.exc
        /\ cur' = [status |-> "printfail", yielded |-> NumMatching(Words(content.lines))]
        /\ nChars' = nChars + Chars(content.lines)
    /\ files' = Tail(files)
    /\ opened' = Append(opened, filename')
    /\ base' = [await |-> c_await, async |-> c_async, error |-> c_error]
    /\ nFailed' = nFailed + 1
    /\ pc' = "aborted"
    /\ UNCHANGED <<stack, root, tokens, ti, c_error, c_async, c_await, nOk>>
    /\ UNCHANGED <<walkHist, stdout>>

\* Lines 23-28: the tokenizer raises an exception the except clause does
\* not name; it leaves the script.
TokenizeUncaught ==
    /\ pc = "files" /\ files # <<>>
    /\ EndsWith(Head(files), Suffix)
    /\ filename' = Join(root, Head(files))
    /\ \E content \in Contents(MaxChars - nChars) :
        LET r == Tokenize(content) IN
        /\ r.exc # "none" /\ ~Caught(r.exc)
        /\ exc' = r.exc
        /\ cur' = [status |-> "uncaught", yielded |-> NumMatching(Words(content.lines))]
        /\ nChars' = nChars + Chars(content.lines)
    /\ files' = Tail(files)
    /\ opened' = Append(opened, filename')
    /\ base' = [await |-> c_await, async |-> c_async, error |-> c_error]
    /\ nFailed' = nFailed + 1
    /\ pc' = "aborted"
    /\ UNCHANGED <<stack, root, tokens, ti, c_error, c_async, c_await, out, nOk>>
    /\ UNCHANGED <<walkHist, stdout>>

\* Lines 33-38, one iteration: a token passes the filter and its line is
\* printed.
ScanMatch ==
    /\ pc = "toks" /\ ti <= Len(tokens)
    /\ IsMatch(tokens[ti])
    /\ out' = Emit(out, Line(tokens[ti].string, filename, tokens[ti].start, "-"))
    /\ stdout' = AfterPrint(filename)
    /\ pc' = "count"
    /\ UNCHANGED <<stack, root, files, filename, tokens, ti, c_error, c_async, c_await, exc>>
    /\ UNCHANGED <<walkHist, fileHist>>

\* Lines 33-38, one iteration: a token passes the filter, and print()
\* raises: lines 40-44 are not reached.  The text of the line is one
\* piece: it is written or not, the newline is not.
MatchPrintFails ==
    /\ pc = "toks" /\ ti <= Len(tokens)
    /\ IsMatch(tokens[ti])
    /\ LET l == Line(tokens[ti].string, filename, tokens[ti].start, "-") IN
       \E o \in PrintFailures(l, BadPath(filename)) :
            /\ out' = Written(out, l, o.w)
            /\ exc' = o.exc
    /\ pc' = "aborted"
    /\ UNCHANGED <<stack, root, files, filename, tokens, ti, c_error, c_async, c_await>>
    /\ UNCHANGED <<walkHist, fileHist, stdout>>

\* Lines 40-44, the rest of the iteration: the token just printed is
\* counted.
CountMatch ==
    /\ pc = "count"
    /\ c_await' = c_await + AwaitInc(tokens[ti])
    /\ c_async' = c_async + AsyncInc(tokens[ti])
    /\ ti' = ti + 1
    /\ pc' = "toks"
    /\ UNCHANGED <<stack, root, files, filename, tokens, c_error, out, exc>>
    /\ UNCHANGED <<walkHist, fileHist, stdout>>

\* Lines 33-35, one iteration: a token the filter rejects.
ScanOther ==
    /\ pc = "toks" /\ ti <= Len(tokens)
    /\ ~IsMatch(tokens[ti])
    /\ ti' = ti + 1
    /\ UNCHANGED <<pc, stack, root, files, filename, tokens, c_error, c_async, c_await, out, exc>>
    /\ UNCHANGED <<walkHist, fileHist, stdout>>

\* Line 33: the token list is exhausted; on to the next name.
TokensDone ==
    /\ pc = "toks" /\ ti > Len(tokens)
    /\ ti' = 1
    /\ pc' = "files"
    /\ UNCHANGED <<stack, root, files, filename, tokens, c_error, c_async, c_await, out, exc>>
    /\ UNCHANGED <<walkHist, fileHist, stdout>>

Next ==
    \/ Usage
    \/ UsageFails
    \/ Start
    \/ StartFails
    \/ WalkYield
    \/ WalkChain
    \/ WalkError
    \/ PrintSummary
    \/ SummaryFails
    \/ FilesDone
    \/ SkipName
    \/ OpenFails
    \/ TokenizeOk
    \/ TokenizeCaught
    \/ ErrorPrintFails
    \/ CountError
    \/ TokenizeUncaught
    \/ ScanMatch
    \/ MatchPrintFails
    \/ CountMatch
    \/ ScanOther
    \/ TokensDone

Spec == Init /\ [][Next]_vars

\* ------------------------------------------------- reading the output
\* A line is told by its kind from its first piece on; it is complete when
\* its newline is written.
Complete(l) == l.w = Pieces(l.k)
IsMatchLine(l) == l.k \in {"await", "async"}
IsErrorLine(l) == l.k = "ERROR"
IsFileLine(l) == IsMatchLine(l) \/ IsErrorLine(l)
IsSummaryLine(l) == l.k \in {"# of errors", "# of await", "# of async"}

MatchLinesOf(f) == { i \in 1..Len(out) : IsMatchLine(out[i]) /\ out[i].f = f }
ErrorLinesOf(f) == { i \in 1..Len(out) : IsErrorLine(out[i]) /\ out[i].f = f }
NumLines(k) == Cardinality({ i \in 1..Len(out) : out[i].k = k })

Running == pc \in {"walk", "files", "toks", "count", "except"}
\* Line 16 was reached: both lines before it are written.
Started == Len(out) >= 2 /\ out[2].k = "blank"

\* Tokens of the list that are NAME tokens spelled s, among the first n.
NumNamed(toks, s, n) ==
    Cardinality({ i \in 1..n : toks[i].type = "NAME" /\ toks[i].string = s })

\* ---------------------------------------------------------------- C1
\* C1: every file handed to open() has either no ERROR line, or exactly one
\* ERROR line and no Match line; a file whose tokenization raised, whatever
\* the tokenizer had yielded before, has no Match line and has left
\* c_await and c_async as they were, and has exactly one ERROR line when the
\* exception was caught and reported.
C1_MatchesOrOneError ==
    /\ \A j \in 1..Len(opened) :
        /\ Cardinality(ErrorLinesOf(opened[j])) <= 1
        /\ ErrorLinesOf(opened[j]) # {} => MatchLinesOf(opened[j]) = {}
    /\ cur.status \in {"caught", "printfail", "uncaught"} =>
        /\ MatchLinesOf(filename) = {}
        /\ c_await = base.await /\ c_async = base.async
    /\ cur.status = "caught" => Cardinality(ErrorLinesOf(filename)) = 1

\* A file failed after its tokenizer had yielded 'await'/'async' names, after
\* an earlier file had produced Match lines.
C1_Witness ==
    /\ cur.status = "caught" /\ cur.yielded > 0
    /\ pc = "files"
    /\ IsErrorLine(out[Len(out)]) /\ out[Len(out)].f = filename
    /\ \E i \in 1..Len(out) : IsMatchLine(out[i])

\* ---------------------------------------------------------------- C2
\* C2: a file that cannot be tokenized is reported with an ERROR line and
\* does not end the run.
C2_FailureNeverAborts ==
    cur.status \in {"caught", "uncaught"} =>
        /\ pc # "aborted"
        /\ ErrorLinesOf(filename) # {}

\* ---------------------------------------------------------------- C3
\* C3: c_error equals the number of ERROR lines printed and the number of
\* files whose tokenization failed, and the summary reports that number; a
\* file that was tokenized and has no 'await'/'async' name leaves the three
\* counters as they were.
C3_ErrorCount ==
    /\ pc \in {"walk", "files", "toks", "done"} =>
        /\ c_error = NumLines("ERROR")
        /\ c_error = nFailed
    /\ pc = "done" =>
        \E i \in 1..Len(out) : out[i].k = "# of errors" /\ out[i].p = nFailed
    /\ \A i \in 1..Len(out) :
        out[i].k = "# of errors" => (out[i].p = nFailed /\ out[i].p = NumLines("ERROR"))
    /\ (cur.status = "ok" /\ cur.yielded = 0 /\ Started) =>
        /\ c_error = base.error /\ c_await = base.await /\ c_async = base.async
        /\ ErrorLinesOf(filename) = {} /\ MatchLinesOf(filename) = {}

\* The run is over; a file failed, and the last file was tokenized without a
\* match.
C3_Witness ==
    /\ pc = "done" /\ nFailed >= 1
    /\ cur.status = "ok" /\ cur.yielded = 0
    /\ \E i \in 1..Len(tokens) : tokens[i].string = "awaits"

\* ---------------------------------------------------------------- C4
\* C4: while a tokenized file is scanned, c_await has grown by the number of
\* NAME tokens spelled 'await' among the tokens passed, c_async by the
\* number of NAME tokens spelled 'async'; once the scan is over, by their
\* numbers in the whole file.
C4_CountsNameTokens ==
    /\ pc = "toks" =>
        /\ c_await - base.await = NumNamed(tokens, "await", ti - 1)
        /\ c_async - base.async = NumNamed(tokens, "async", ti - 1)
    /\ (cur.status = "ok" /\ pc \in {"files", "walk", "done"}) =>
        /\ c_await - base.await = NumNamed(tokens, "await", Len(tokens))
        /\ c_async - base.async = NumNamed(tokens, "async", Len(tokens))

\* A file with a NAME 'await' and a token of another type with the same
\* text has been scanned to its end.
C4_Witness ==
    /\ cur.status = "ok" /\ pc = "files"
    /\ \E i, j \in 1..Len(tokens) :
        /\ tokens[i].type = "NAME" /\ tokens[i].string = "await"
        /\ tokens[j].type # "NAME" /\ tokens[j].string = "await"
    /\ c_await - base.await = 1

\* ---------------------------------------------------------------- C5
\* C5: when a run ends, with the summary or with an exception of the
\* tokenizer, c_error plus the number of files tokenized equals the number
\* of listed files whose name ends with '.py'.
C5_EveryFileClassified ==
    (pc = "done" \/ (pc = "aborted" /\ cur.status = "uncaught")) =>
        c_error + nOk = nPy

\* ---------------------------------------------------------------- C6
\* C6: a run that met, below the root it had listed, a directory it could
\* not list ends aborted: it does not pass the directory over and end with
\* the summary.
C6_UnreadableIsFatal == (unread > 0 /\ nDirs > 1 /\ ~Running) => pc = "aborted"

\* ---------------------------------------------------------------- C7
\* (row, column) a comes before b in the source.
Before(a, b) == a[1] < b[1] \/ (a[1] = b[1] /\ a[2] < b[2])
PosOf(f) == CHOOSE j \in 1..Len(opened) : opened[j] = f
IsPrefix(a, b) == Len(a) <= Len(b) /\ SubSeq(b, 1, Len(a)) = a

\* C7: the directory echo comes first, before any line of a file or of the
\* summary; the lines of the files come in the
\* order the files were reached by the walk, those of one file together and
\* printed while it is the file being processed, its Match lines in source
\* order; a directory's files come before those of the directories below
\* it; nothing about a file follows the summary.
C7_OutputOrder ==
    /\ [](Running \/ pc = "done" => Started)
    /\ [](\A i \in 1..Len(out) :
            (IsFileLine(out[i]) \/ IsSummaryLine(out[i]) \/ out[i].k = "blank") =>
                (i >= 2 /\ out[1].k = "Directory"))
    /\ [](\A i \in 1..Len(out) :
            ~Complete(out[i]) => (i = Len(out) /\ pc = "aborted"))
    /\ [](\A i, j \in 1..Len(out) :
            (i < j /\ IsFileLine(out[i]) /\ IsFileLine(out[j])) =>
                /\ \E a, b \in 1..Len(opened) : opened[a] = out[i].f /\ opened[b] = out[j].f
                /\ PosOf(out[i].f) <= PosOf(out[j].f)
                /\ (out[i].f = out[j].f /\ IsMatchLine(out[i]) /\ IsMatchLine(out[j]))
                      => Before(out[i].p, out[j].p))
    /\ [](\A i, j \in 1..Len(out) :
            (i < j /\ IsSummaryLine(out[i])) => ~IsFileLine(out[j]))
    /\ [](\A a, b \in 1..Len(opened) :
            (opened[a][1] # opened[b][1] /\ IsPrefix(opened[a][1], opened[b][1])) => a < b)
    /\ [][(Len(out') = Len(out) + 1 /\ IsFileLine(out'[Len(out')])) =>
            /\ SubSeq(out', 1, Len(out)) = out
            /\ out'[Len(out')].f = filename'
            /\ filename' = opened'[Len(opened')]]_vars

\* The summary follows two Match lines of one file, for two tokens of the
\* same source line, and a line of another file.
C7_Witness ==
    /\ pc = "done"
    /\ \E i, j, k \in 1..Len(out) :
        /\ i < j /\ j < k
        /\ IsMatchLine(out[i]) /\ IsMatchLine(out[j]) /\ out[i].f = out[j].f
        /\ out[i].p[1] = out[j].p[1]
        /\ IsFileLine(out[k]) /\ out[k].f # out[j].f

\* ---------------------------------------------------------------- C8
\* C8: every file handed to open() and every file a line names has a name
\* whose last three characters are '.', 'p', 'y'; the step taken for any
\* other name prints nothing, opens nothing and changes no counter.
C8_OnlySuffixOpened ==
    /\ [](\A j \in 1..Len(opened) : HasPySuffix(opened[j][2]))
    /\ [](\A i \in 1..Len(out) : out[i].f # NoFile => HasPySuffix(out[i].f[2]))
    /\ [][(pc = "files" /\ files # <<>> /\ ~HasPySuffix(Head(files))) =>
            /\ out' = out /\ opened' = opened /\ filename' = filename
            /\ tokens' = tokens
            /\ <<c_error, c_await, c_async>>' = <<c_error, c_await, c_async>>
            /\ files' = Tail(files) /\ pc' = "files"]_vars
    /\ [](pc \in {"done", "walk"} => Len(opened) + nSkipped = nFiles)

\* The two names of a lone directory (d.txt and e.PY) were passed over and
\* the summary was printed.
C8_Witness == pc = "done" /\ nSkipped = 2 /\ nDirs = 1 /\ unread = 0

\* ---------------------------------------------------------------- C9
Rank(p) == CASE p = "init" -> 0
             [] p \in {"walk", "files", "toks", "count", "except"} -> 1
             [] OTHER -> 2

\* C9: the counters are zero when the walk starts and never decrease; no
\* step goes back from RUNNING to INIT or leaves DONE; the summary is
\* printed only by the step that ends the walk, once, when no directory
\* and no name is left, and reports the counters as they are then; nothing
\* changes after it.
C9_Lifecycle ==
    /\ [][pc = "init" /\ pc' \notin {"exit", "aborted"} =>
            pc' = "walk" /\ c_error' = 0 /\ c_await' = 0 /\ c_async' = 0]_vars
    /\ [][pc # "init" =>
            /\ c_error' >= c_error /\ c_await' >= c_await /\ c_async' >= c_async
            /\ Rank(pc') >= Rank(pc)]_vars
    /\ [][pc \notin {"done", "aborted", "exit"}]_vars
    /\ [](\A i \in 1..Len(out) :
            IsSummaryLine(out[i]) =>
                /\ pc \in {"done", "aborted"} /\ stack = <<>> /\ files = <<>>
                /\ NumLines(out[i].k) = 1)
    /\ [](Running => \A i \in 1..Len(out) : ~IsSummaryLine(out[i]))
    /\ [](pc = "done" =>
            /\ stack = <<>> /\ files = <<>>
            /\ Len(out) >= 6
            /\ SubSeq(out, Len(out) - 3, Len(out)) =
                 << Line("blank", NoFile, 0, "-"),
                    Line("# of errors", NoFile, c_error, "-"),
                    Line("# of await", NoFile, c_await, "-"),
                    Line("# of async", NoFile, c_async, "-") >>
            /\ \A i \in 1..(Len(out) - 3) : ~IsSummaryLine(out[i]))

\* The summary was printed with an 'await' count that differs from the
\* 'async' count.
C9_Witness == pc = "done" /\ c_await > c_async /\ c_error > 0

\* --------------------------------------------------------------- C10
\* Lines of kind k of which everything but, at most, the newline is
\* written.
NumTexts(k) ==
    Cardinality({ i \in 1..Len(out) : out[i].k = k /\ out[i].w >= Pieces(k) - 1 })

\* C10: every 'await' line on the output has added one to c_await, every
\* 'async' line one to c_async, every ERROR line one to c_error, and
\* nothing else has changed a counter: whenever the script is not between
\* the print() of a line and the statement that counts it, each counter
\* equals the number of its lines, and c_await + c_async the number of
\* Match lines.
C10_OneCounterPerLine ==
    (Started /\ pc \notin {"count", "except"}) =>
        /\ c_await = NumTexts("await")
        /\ c_async = NumTexts("async")
        /\ c_error = NumTexts("ERROR")
        /\ c_await + c_async = NumTexts("await") + NumTexts("async")

====
